---- MODULE Spec2Model ----
(***************************************************************************)
(* A model of bnf-lang.py: a grammar table, a backtracking recursive       *)
(* descent parser over a token sequence, and a tree-walking evaluator.     *)
(*                                                                         *)
(* Tokens and grammar symbols are strings.  Python positions are 0-based:  *)
(* tokens[j] in the source is tokens[j + 1] here.                          *)
(***************************************************************************)
EXTENDS Integers, Sequences, FiniteSets, TLC

(***************************************************************************)
(* Bounds of the model.                                                    *)
(***************************************************************************)
\* longest token string enumerated over Alphabet
MaxLen == 3
\* longest token string of a direct call of parse
MaxCallLen == 2
\* longest token string of a call run step by step
MaxRunLen == 3
\* longest digit string enumerated over SomeDigits
MaxDigits == 3
\* x, y, z are bound to the values in 0 .. MaxVar, and to the two bindings
\* of the driver
MaxVar == 0

(***************************************************************************)
(* Variants of the grammar: the first adds a unary plus, which the         *)
(* evaluator does not know; the second states expression left-recursively. *)
(***************************************************************************)
bnf_syntax_unary_plus ==
    [ expression |-> << <<"term", "sumop", "expression">>, <<"term">> >>,
      sumop      |-> << <<"+">>, <<"-">> >>,
      term       |-> << <<"factor", "prodop", "term">>, <<"factor">> >>,
      prodop     |-> << <<"*">>, <<"/">> >>,
      factor     |-> << <<"constant">>, <<"variable">>,
                        <<"(", "expression", ")">>, <<"+", "factor">> >>,
      variable   |-> << <<"x">>, <<"y">>, <<"z">> >>,
      constant   |-> << <<"digit", "constant">>, <<"digit">> >>,
      digit      |-> << <<"0">>, <<"1">>, <<"2">>, <<"3">>, <<"4">>,
                        <<"5">>, <<"6">>, <<"7">>, <<"8">>, <<"9">> >> ]

bnf_syntax_left_recursive ==
    [ expression |-> << <<"expression", "sumop", "term">>, <<"term">> >>,
      sumop      |-> << <<"+">>, <<"-">> >>,
      term       |-> << <<"factor", "prodop", "term">>, <<"factor">> >>,
      prodop     |-> << <<"*">>, <<"/">> >>,
      factor     |-> << <<"constant">>, <<"variable">>,
                        <<"(", "expression", ")">> >>,
      variable   |-> << <<"x">>, <<"y">>, <<"z">> >>,
      constant   |-> << <<"digit", "constant">>, <<"digit">> >>,
      digit      |-> << <<"0">>, <<"1">>, <<"2">>, <<"3">>, <<"4">>,
                        <<"5">>, <<"6">>, <<"7">>, <<"8">>, <<"9">> >> ]

(***************************************************************************)
(* The grammar (bnf_syntax, lines 16-25).                                  *)
(***************************************************************************)
bnf_syntax ==
    [ expression |-> << <<"term", "sumop", "expression">>, <<"term">> >>,
      sumop      |-> << <<"+">>, <<"-">> >>,
      term       |-> << <<"factor", "prodop", "term">>, <<"factor">> >>,
      prodop     |-> << <<"*">>, <<"/">> >>,
      factor     |-> << <<"constant">>, <<"variable">>,
                        <<"(", "expression", ")">> >>,
      variable   |-> << <<"x">>, <<"y">>, <<"z">> >>,
      constant   |-> << <<"digit", "constant">>, <<"digit">> >>,
      digit      |-> << <<"0">>, <<"1">>, <<"2">>, <<"3">>, <<"4">>,
                        <<"5">>, <<"6">>, <<"7">>, <<"8">>, <<"9">> >> ]

\* ParseError = (ValueError, IndexError): the exceptions `parse` catches.
ParseError == {"ValueError", "IndexError"}

(***************************************************************************)
(* Syntax trees.  The source builds a node as the tuple (identifier,       *)
(* parts) and a leaf as the bare token; here both are records of one       *)
(* shape, a leaf having the empty identifier.                              *)
(***************************************************************************)
Node(identifier, parts) ==
    [identifier |-> identifier, parts |-> parts, token |-> ""]

Leaf(token) == [identifier |-> "", parts |-> <<>>, token |-> token]

IsLeaf(t) == t.identifier = ""

NoTree == Leaf("")

(***************************************************************************)
(* Outcomes of the parsing functions: a returned pair (i, el), or a raised *)
(* exception.                                                              *)
(***************************************************************************)
Return(i, el) == [ok |-> TRUE, i |-> i, el |-> el, err |-> ""]

Raise(err) == [ok |-> FALSE, i |-> 0, el |-> NoTree, err |-> err]

RECURSIVE parse(_, _, _, _)
RECURSIVE parse_rule_loop(_, _, _, _, _, _)
RECURSIVE parse_alternatives(_, _, _, _, _)

\* a variant of parse_part that takes a part of more than one character for
\* a rule name, and its absence from the grammar for a KeyError
parse_part_strict(tokens, j, part, syntax) ==
    IF part \in DOMAIN syntax
    THEN parse(tokens, j, part, syntax)
    ELSE IF part \in {"number", "expression", "term", "factor"}
    THEN Raise("KeyError")
    ELSE IF j >= Len(tokens)
    THEN Raise("IndexError")
    ELSE IF part = tokens[j + 1]
    THEN Return(j + 1, Leaf(tokens[j + 1]))
    ELSE Raise("ValueError")

\* parse_part (lines 38-44)
parse_part(tokens, j, part, syntax) ==
    IF part \in DOMAIN syntax
    THEN parse(tokens, j, part, syntax)
    ELSE IF j >= Len(tokens)
    THEN Raise("IndexError")
    ELSE IF part = tokens[j + 1]
    THEN Return(j + 1, Leaf(tokens[j + 1]))
    ELSE Raise("ValueError")

\* the loop of parse_rule (lines 49-52), from the n-th part of the rule on
parse_rule_loop(tokens, i, rule, syntax, n, parts) ==
    IF n > Len(rule)
    THEN Return(i, parts)
    ELSE LET r == parse_part(tokens, i, rule[n], syntax)
         IN  IF r.ok
             THEN parse_rule_loop(tokens, r.i, rule, syntax, n + 1,
                                  Append(parts, r.el))
             ELSE r

\* parse_rule (lines 47-52)
parse_rule(tokens, i, rule, syntax) ==
    parse_rule_loop(tokens, i, rule, syntax, 1, <<>>)

\* a variant of Caught: `except ValueError: pass`
CaughtValueError(r) == r.err = "ValueError"

\* the exceptions the `except ParseError: pass` of parse swallows
Caught(r) == r.err \in ParseError

\* a variant of the loop of parse that does not return at the first match:
\* the last alternative that matches wins
RECURSIVE parse_alternatives_last(_, _, _, _, _)
parse_alternatives_last(tokens, i, identifier, syntax, k) ==
    IF k > Len(syntax[identifier])
    THEN Raise("ValueError")
    ELSE LET r == parse_rule(tokens, i, syntax[identifier][k], syntax)
             later == parse_alternatives_last(tokens, i, identifier, syntax,
                                              k + 1)
         IN  IF later.ok THEN later
             ELSE IF r.ok THEN Return(r.i, Node(identifier, r.el))
             ELSE IF r.err \in ParseError THEN later
             ELSE r

\* the loop of parse (lines 56-62), from the k-th alternative on
parse_alternatives(tokens, i, identifier, syntax, k) ==
    IF k > Len(syntax[identifier])
    THEN Raise("ValueError")
    ELSE LET r == parse_rule(tokens, i, syntax[identifier][k], syntax)
         IN  IF r.ok
             THEN Return(r.i, Node(identifier, r.el))
             ELSE IF Caught(r)
             THEN parse_alternatives(tokens, i, identifier, syntax, k + 1)
             ELSE r

\* parse (lines 55-62); syntax[identifier] of an absent key is a KeyError
parse(tokens, i, identifier, syntax) ==
    IF identifier \notin DOMAIN syntax
    THEN Raise("KeyError")
    ELSE parse_alternatives(tokens, i, identifier, syntax, 1)

\* parse_expression (lines 65-66): the tree of the pair, the position dropped
parse_expression(expression) ==
    LET r == parse(expression, 0, "expression", bnf_syntax)
    IN  IF r.ok THEN Return(0, r.el) ELSE r

(***************************************************************************)
(* Values of the evaluator.  A number is the rational n/d in lowest terms  *)
(* with d > 0; float records that Python holds it as a float (the result   *)
(* of a true division, or of arithmetic on a float), whose rounding is not *)
(* modelled.  evaluate returns a binary function for an operator node.     *)
(***************************************************************************)
RECURSIVE GCD(_, _)
GCD(a, b) == IF b = 0 THEN a ELSE GCD(b, a % b)

Abs(n) == IF n < 0 THEN -n ELSE n

Number(n, d, float) ==
    LET g == GCD(Abs(n), Abs(d))
        s == IF d < 0 THEN -1 ELSE 1
    IN  [kind |-> "number", n |-> s * (n \div g), d |-> s * (d \div g),
         float |-> float, name |-> ""]

Integer(n) == Number(n, 1, FALSE)

Function(name) ==
    [kind |-> "function", n |-> 0, d |-> 1, float |-> FALSE, name |-> name]

Raised(err) ==
    [kind |-> "raise", n |-> 0, d |-> 1, float |-> FALSE, name |-> err]

IsRaised(v) == v.kind = "raise"

\* the functions of module operator the evaluator returns (lines 95-115)
operator_add(a, b) ==
    Number(a.n * b.d + b.n * a.d, a.d * b.d, a.float \/ b.float)

operator_sub(a, b) ==
    Number(a.n * b.d - b.n * a.d, a.d * b.d, a.float \/ b.float)

operator_mul(a, b) == Number(a.n * b.n, a.d * b.d, a.float \/ b.float)

\* a variant of operator_truediv: operator.floordiv on integers
operator_floordiv(a, b) ==
    IF b.n = 0
    THEN Raised("ZeroDivisionError")
    ELSE Number((a.n * b.d) \div (a.d * b.n), 1, a.float \/ b.float)

operator_truediv(a, b) ==
    IF b.n = 0
    THEN Raised("ZeroDivisionError")
    ELSE Number(a.n * b.d, a.d * b.n, TRUE)

\* binop(a, b) (lines 89, 107): calling what is no function, or a function
\* on what is no number, is a TypeError
Call(binop, a, b) ==
    IF binop.kind # "function" \/ a.kind # "number" \/ b.kind # "number"
    THEN Raised("TypeError")
    ELSE CASE binop.name = "add" -> operator_add(a, b)
           [] binop.name = "sub" -> operator_sub(a, b)
           [] binop.name = "mul" -> operator_mul(a, b)
           [] OTHER -> operator_truediv(a, b)

(***************************************************************************)
(* str and int on integers: the decimal text of a number as a sequence of  *)
(* characters, and the number a text denotes.                              *)
(***************************************************************************)
DigitChars == <<"0", "1", "2", "3", "4", "5", "6", "7", "8", "9">>

IsDigitChar(c) == \E k \in 1 .. 10 : DigitChars[k] = c

DigitValue(c) == (CHOOSE k \in 1 .. 10 : DigitChars[k] = c) - 1

RECURSIVE str(_)
str(n) ==
    IF n < 0 THEN <<"-">> \o str(-n)
    ELSE IF n < 10 THEN <<DigitChars[n + 1]>>
    ELSE str(n \div 10) \o <<DigitChars[(n % 10) + 1]>>

RECURSIVE DecimalValue(_)
DecimalValue(text) ==
    IF text = <<>> THEN 0
    ELSE 10 * DecimalValue(SubSeq(text, 1, Len(text) - 1))
         + DigitValue(text[Len(text)])

AllDigits(text) == \A k \in 1 .. Len(text) : IsDigitChar(text[k])

\* int(text): an optional sign, then one digit or more
int(text) ==
    LET signed == text # <<>> /\ text[1] = "-"
        digits == IF signed THEN Tail(text) ELSE text
    IN  IF digits = <<>> \/ ~AllDigits(digits)
        THEN Raised("ValueError")
        ELSE Integer(IF signed THEN -DecimalValue(digits)
                               ELSE DecimalValue(digits))

\* numjoin (lines 74-76): int(str(a) + str(b)).  The text of a float holds a
\* point (or inf, nan) and the text of a function is no number: int refuses
\* both.
numjoin(a, b) ==
    IF a.kind # "number" \/ b.kind # "number" \/ a.float \/ b.float
    THEN Raised("ValueError")
    ELSE int(str(a.n) \o str(b.n))

(***************************************************************************)
(* The evaluator (lines 79-154).  env holds the globals x, y, z of the     *)
(* module, bound together by the driver; bound is FALSE before that.       *)
(***************************************************************************)
\* parts[k][0]: the identifier of a node, the first character of a token
Head0(part) == IF IsLeaf(part) THEN part.token ELSE part.identifier

\* parts[k] == "c"
IsToken(part, c) == IsLeaf(part) /\ part.token = c

\* a global variable read (lines 131, 133, 135)
Global(env, name) ==
    IF ~env.bound THEN Raised("NameError") ELSE Integer(env[name])

RECURSIVE evaluate(_, _)

\* a variant of BinaryRule: binop(evaluate(parts[2]), evaluate(parts[0]))
BinaryRuleSwapped(parts, env) ==
    LET binop == evaluate(parts[2], env)
        a == evaluate(parts[1], env)
        b == evaluate(parts[3], env)
    IN  IF IsRaised(binop) THEN binop
        ELSE IF IsRaised(b) THEN b
        ELSE IF IsRaised(a) THEN a
        ELSE Call(binop, b, a)

\* binop = evaluate(parts[1]); binop(evaluate(parts[0]), evaluate(parts[2]))
BinaryRule(parts, env) ==
    LET binop == evaluate(parts[2], env)
        a == evaluate(parts[1], env)
        b == evaluate(parts[3], env)
    IN  IF IsRaised(binop) THEN binop
        ELSE IF IsRaised(a) THEN a
        ELSE IF IsRaised(b) THEN b
        ELSE Call(binop, a, b)

\* numjoin(evaluate(parts[0]), evaluate(parts[1]))
ConstantRule(parts, env) ==
    LET a == evaluate(parts[1], env)
        b == evaluate(parts[2], env)
    IN  IF IsRaised(a) THEN a
        ELSE IF IsRaised(b) THEN b
        ELSE numjoin(a, b)

\* int(parts[0])
DigitRule(parts) ==
    IF ~IsLeaf(parts[1]) THEN Raised("TypeError")
    ELSE int(<<parts[1].token>>)

evaluate(tree, env) ==
    LET identifier == tree.identifier
        parts == tree.parts
        n == Len(parts)
    IN  IF IsLeaf(tree) THEN Raised("ValueError")
        ELSE CASE identifier \in {"expression", "term"} ->
                    IF n = 1 THEN evaluate(parts[1], env)
                    ELSE IF n = 3 THEN BinaryRule(parts, env)
                    ELSE Raised("TypeError")
               [] identifier = "sumop" ->
                    IF n = 1 /\ IsToken(parts[1], "+") THEN Function("add")
                    ELSE IF n = 1 /\ IsToken(parts[1], "-")
                    THEN Function("sub")
                    ELSE Raised("TypeError")
               [] identifier = "prodop" ->
                    IF n = 1 /\ IsToken(parts[1], "*") THEN Function("mul")
                    ELSE IF n = 1 /\ IsToken(parts[1], "/")
                    THEN Function("truediv")
                    ELSE Raised("TypeError")
               [] identifier = "factor" ->
                    IF n = 1 /\ Head0(parts[1]) = "constant"
                    THEN evaluate(parts[1], env)
                    ELSE IF n = 1 /\ Head0(parts[1]) = "variable"
                    THEN evaluate(parts[1], env)
                    ELSE IF n = 3 /\ Head0(parts[2]) = "expression"
                    THEN evaluate(parts[2], env)
                    ELSE Raised("TypeError")
               [] identifier = "variable" ->
                    IF n = 1 /\ IsToken(parts[1], "x") THEN Global(env, "x")
                    ELSE IF n = 1 /\ IsToken(parts[1], "y")
                    THEN Global(env, "y")
                    ELSE IF n = 1 /\ IsToken(parts[1], "z")
                    THEN Global(env, "z")
                    ELSE Raised("TypeError")
               [] identifier = "constant" ->
                    IF n = 1 THEN evaluate(parts[1], env)
                    ELSE IF n = 2 THEN ConstantRule(parts, env)
                    ELSE Raised("TypeError")
               [] identifier = "digit" ->
                    IF n = 1 THEN DigitRule(parts)
                    ELSE Raised("TypeError")
               [] OTHER -> Raised("TypeError")

(***************************************************************************)
(* Inputs.  Token strings over a part of the grammar's characters, digit   *)
(* strings, operator chains "a op b op c" over one level of operators, and *)
(* the expression of the driver (line 162).                                *)
(***************************************************************************)
Strings(S, n) == UNION {[1 .. k -> S] : k \in 0 .. n}

Alphabet == {"1", "x", "+", "/", "(", ")"}

SomeDigits == {"0", "1", "2", "9"}

DigitStrings == Strings(SomeDigits, MaxDigits) \ {<<>>}

SumOps == {"+", "-"}

ProdOps == {"*", "/"}

\* the operands of the chains of one level
Operands(ops) == IF ops = SumOps THEN {"1", "2", "3"} ELSE {"2", "4", "8"}

ChainsOf(ops) ==
    {<<a, o1, b, o2, c>> :
        a \in Operands(ops), b \in Operands(ops), c \in Operands(ops),
        o1 \in ops, o2 \in ops}

Chains == ChainsOf(SumOps) \cup ChainsOf(ProdOps)

Demo ==
    <<"1", "0", "+", "2", "*", "x", "+", "3", "*", "(", "y", "+", "z", ")",
      "/", "2">>

Trailing == <<"1", "+", "2", ")">>

DivisionByZero == <<"1", "/", "0">>

Expressions ==
    Strings(Alphabet, MaxLen) \cup DigitStrings \cup Chains
        \cup {Demo, Trailing, DivisionByZero}

\* the bindings of the driver (lines 167, 171), and all small ones
Bindings ==
    {<<1, 2, 3>>, <<10, 2, 4>>} \cup ((0 .. MaxVar) \X (0 .. MaxVar) \X (0 .. MaxVar))

(***************************************************************************)
(* A second grammar, for direct calls of parse: s is ambiguous (its second *)
(* alternative would consume more), the first alternatives of t and w fail *)
(* after two matched parts, and r names "number", which has no entry.      *)
(***************************************************************************)
test_syntax ==
    [ s |-> << <<"a">>, <<"a", "b">> >>,
      t |-> << <<"a", "b", "c">>, <<"a", "b", "b">>, <<"s", "b">> >>,
      w |-> << <<"s", "s", "c">>, <<"s", "b">>, <<"a", "a">> >>,
      r |-> << <<"number", "a">>, <<"a">> >> ]

TestAlphabet == {"a", "b", "c", "number"}

Syntax(name) == IF name = "bnf_syntax" THEN bnf_syntax ELSE test_syntax

\* the token strings and the rule names of the direct calls
TokensOf(name) ==
    Strings(IF name = "bnf_syntax" THEN Alphabet ELSE TestAlphabet,
            MaxCallLen)

\* the token strings of the calls run step by step
RunAlphabet == {"1", "+", "(", ")"}

RunTokensOf(name) ==
    Strings(IF name = "bnf_syntax" THEN RunAlphabet ELSE TestAlphabet,
            MaxRunLen)

IdentifiersOf(name) ==
    IF name = "bnf_syntax" THEN DOMAIN bnf_syntax
    ELSE DOMAIN test_syntax \cup {"number"}

NoCall == [syntax |-> "", tokens |-> <<>>, i |-> 0, identifier |-> ""]

NoEnv == [bound |-> FALSE, x |-> 0, y |-> 0, z |-> 0]

NoValue == Raised("")

(***************************************************************************)
(* Frames of the call stack.  A frame of parse holds its identifier, its   *)
(* local i and the index k of the alternative its loop is at; a frame of   *)
(* parse_rule holds its rule, its locals i and parts and the index k of    *)
(* the part its loop is at.  parse_part runs within the step of the        *)
(* parse_rule that calls it.  Two fields are history, not program state:   *)
(* start is the i the frame was called with, and lost is the number of     *)
(* parts the alternative that failed last had collected.                   *)
(***************************************************************************)
ParseFrame(identifier, i) ==
    [fn |-> "parse", identifier |-> identifier, rule |-> <<>>, i |-> i,
     k |-> 1, parts |-> <<>>, start |-> i, lost |-> 0]

RuleFrame(rule, i) ==
    [fn |-> "parse_rule", identifier |-> "", rule |-> rule, i |-> i,
     k |-> 1, parts |-> <<>>, start |-> i, lost |-> 0]

\* What a call that ended hands to its caller: the pair (i, el) of parse,
\* the pair (i, parts) of parse_rule, or an exception.  With an exception
\* raised out of parse_rule, i and parts are the locals the frame dropped.
NoResult == [kind |-> "none", i |-> 0, el |-> NoTree, parts |-> <<>>, err |-> ""]

Returned(i, el, parts) ==
    [kind |-> "return", i |-> i, el |-> el, parts |-> parts, err |-> ""]

Thrown(err, i, parts) ==
    [kind |-> "raise", i |-> i, el |-> NoTree, parts |-> parts, err |-> err]

(***************************************************************************)
(* The state: the position of the driver (pc), its variables expression,   *)
(* tree and value, the globals x, y, z (env), the number of evaluations,   *)
(* and, for a direct call of parse, the call and what it returned.  For a  *)
(* call run step by step, stack holds the frames of parse and parse_rule   *)
(* that are active, and result what the call that ended last returned or   *)
(* raised, until its caller takes it.                                      *)
(***************************************************************************)
VARIABLES pc, expression, tree, env, value, evals, call, ret, stack, result

vars == <<pc, expression, tree, env, value, evals, call, ret, stack, result>>

\* the variables of the driver and of the direct calls
results == <<expression, tree, env, value, evals, ret>>

Init ==
    /\ pc = "start"
    /\ expression = <<>>
    /\ tree = NoTree
    /\ env = NoEnv
    /\ value = NoValue
    /\ evals = 0
    /\ call = NoCall
    /\ ret = Raise("")
    /\ stack = <<>>
    /\ result = NoResult

\* tree = parse_expression(expression) (line 164)
ParseExpression ==
    /\ pc = "start"
    /\ \E e \in Expressions :
         LET r == parse_expression(e)
         IN  /\ expression' = e
             /\ pc' = IF r.ok THEN "parsed" ELSE "parse_raised"
             /\ tree' = r.el
    /\ UNCHANGED <<env, value, evals, call, ret, stack, result>>

\* a direct call parse(tokens, i, identifier, syntax)
Parse ==
    /\ pc = "start"
    /\ \E name \in {"bnf_syntax", "test_syntax"} :
         \E tokens \in TokensOf(name) :
           \E i \in 0 .. Len(tokens), identifier \in IdentifiersOf(name) :
             /\ call' = [syntax |-> name, tokens |-> tokens, i |-> i,
                         identifier |-> identifier]
             /\ ret' = parse(tokens, i, identifier, Syntax(name))
    /\ pc' = "returned"
    /\ UNCHANGED <<expression, tree, env, value, evals, stack, result>>

\* (x, y, z) = b; value = evaluate(tree) (lines 167-168, 171-172): the driver
\* evaluates the tree twice
Evaluate ==
    /\ pc = "parsed"
    /\ evals < 2
    /\ \E b \in Bindings :
         LET e == [bound |-> TRUE, x |-> b[1], y |-> b[2], z |-> b[3]]
             v == evaluate(tree, e)
         IN  /\ env' = e
             /\ value' = v
             /\ pc' = IF IsRaised(v) THEN "evaluate_raised" ELSE "parsed"
    /\ evals' = evals + 1
    /\ UNCHANGED <<expression, tree, call, ret, stack, result>>

\* value = evaluate(tree) with x, y, z not yet assigned
EvaluateUnbound ==
    /\ pc = "parsed"
    /\ evals = 0
    /\ LET v == evaluate(tree, env)
       IN  /\ value' = v
           /\ pc' = IF IsRaised(v) THEN "evaluate_raised" ELSE "parsed"
    /\ evals' = evals + 1
    /\ UNCHANGED <<expression, tree, env, call, ret, stack, result>>

Next == ParseExpression \/ Parse \/ Evaluate \/ EvaluateUnbound

Spec == Init /\ [][Next]_vars

(***************************************************************************)
(* A call of parse run step by step.                                       *)
(***************************************************************************)
Top == stack[Len(stack)]

Pop == SubSeq(stack, 1, Len(stack) - 1)

ReplaceTop(frame) == [stack EXCEPT ![Len(stack)] = frame]

\* the grammar of the call that runs
Grammar == Syntax(call.syntax)

\* the call has ended when its last frame is gone
After(frames) == IF frames = <<>> THEN "done" ELSE "running"

\* a variant of Retry: the position the failed alternative had reached is
\* kept
RetryLeak(frame, thrown) ==
    [frame EXCEPT !.k = @ + 1, !.lost = Len(thrown.parts), !.i = thrown.i]

\* `except ParseError: pass` (lines 60-61): the loop of parse goes on to its
\* next alternative, its i as it was
Retry(frame, thrown) ==
    [frame EXCEPT !.k = @ + 1, !.lost = Len(thrown.parts)]

\* i, el = parse_part(...); parts.append(el) (lines 50-51)
Collect(frame, i, el) ==
    [frame EXCEPT !.i = i, !.parts = Append(@, el), !.k = @ + 1]

\* parse_expression(tokens), or parse(tokens, i, identifier, test_syntax),
\* is called
Enter ==
    /\ pc = "start"
    /\ \E name \in {"bnf_syntax", "test_syntax"} :
         \E tokens \in RunTokensOf(name) :
           \E i \in 0 .. Len(tokens), identifier \in IdentifiersOf(name) :
             /\ name = "bnf_syntax" => (i = 0 /\ identifier = "expression")
             /\ call' = [syntax |-> name, tokens |-> tokens, i |-> i,
                         identifier |-> identifier]
             /\ IF identifier \in DOMAIN Syntax(name)
                THEN /\ stack' = <<ParseFrame(identifier, i)>>
                     /\ result' = NoResult
                     /\ pc' = "running"
                ELSE /\ stack' = <<>>
                     /\ result' = Thrown("KeyError", i, <<>>)
                     /\ pc' = "done"
    /\ UNCHANGED results

\* the loop of parse (lines 56-62) reaches its next alternative, or its end
ParseLoop ==
    /\ pc = "running"
    /\ result.kind = "none"
    /\ Top.fn = "parse"
    /\ IF Top.k > Len(Grammar[Top.identifier])
       THEN /\ stack' = Pop
            /\ result' = Thrown("ValueError", Top.i, <<>>)
            /\ pc' = After(Pop)
       ELSE /\ stack' = Append(stack,
                               RuleFrame(Grammar[Top.identifier][Top.k], Top.i))
            /\ UNCHANGED <<result, pc>>
    /\ UNCHANGED <<results, call>>

\* the loop of parse_rule (lines 49-52) reaches its next part, or its end
RuleLoop ==
    /\ pc = "running"
    /\ result.kind = "none"
    /\ Top.fn = "parse_rule"
    /\ IF Top.k > Len(Top.rule)
       THEN /\ stack' = Pop
            /\ result' = Returned(Top.i, NoTree, Top.parts)
       ELSE LET part == Top.rule[Top.k]
            IN  IF part \in DOMAIN Grammar
                THEN /\ stack' = Append(stack, ParseFrame(part, Top.i))
                     /\ UNCHANGED result
                ELSE IF Top.i >= Len(call.tokens)
                THEN /\ stack' = Pop
                     /\ result' = Thrown("IndexError", Top.i, Top.parts)
                ELSE IF part = call.tokens[Top.i + 1]
                THEN /\ stack' = ReplaceTop(Collect(Top, Top.i + 1,
                                                    Leaf(call.tokens[Top.i + 1])))
                     /\ UNCHANGED result
                ELSE /\ stack' = Pop
                     /\ result' = Thrown("ValueError", Top.i, Top.parts)
    /\ UNCHANGED <<results, call, pc>>

\* parse takes what parse_rule returned or raised (lines 58-61)
ParseResume ==
    /\ pc = "running"
    /\ result.kind # "none"
    /\ Top.fn = "parse"
    /\ IF result.kind = "return"
       THEN /\ stack' = Pop
            /\ result' = Returned(result.i,
                                  Node(Top.identifier, result.parts), <<>>)
            /\ pc' = After(Pop)
       ELSE IF result.err \in ParseError
       THEN /\ stack' = ReplaceTop(Retry(Top, result))
            /\ result' = NoResult
            /\ pc' = pc
       ELSE /\ stack' = Pop
            /\ result' = result
            /\ pc' = After(Pop)
    /\ UNCHANGED <<results, call>>

\* parse_rule takes what parse_part returned or raised (lines 50-51)
RuleResume ==
    /\ pc = "running"
    /\ result.kind # "none"
    /\ Top.fn = "parse_rule"
    /\ IF result.kind = "return"
       THEN /\ stack' = ReplaceTop(Collect(Top, result.i, result.el))
            /\ result' = NoResult
       ELSE /\ stack' = Pop
            /\ result' = Thrown(result.err, Top.i, Top.parts)
    /\ UNCHANGED <<results, call, pc>>

Step == ParseLoop \/ RuleLoop \/ ParseResume \/ RuleResume

RunNext == Enter \/ Step

\* the interpreter runs a call to its end
Run == Init /\ [][RunNext]_vars /\ WF_vars(Step)

(***************************************************************************)
(* Definitions the properties are stated with.                             *)
(***************************************************************************)
RECURSIVE Leaves(_)
RECURSIVE LeavesOfParts(_)

\* the tokens at the leaves of a tree, left to right
Leaves(t) == IF IsLeaf(t) THEN <<t.token>> ELSE LeavesOfParts(t.parts)

LeavesOfParts(parts) ==
    IF parts = <<>> THEN <<>>
    ELSE Leaves(Head(parts)) \o LeavesOfParts(Tail(parts))

RECURSIVE Derives(_, _, _, _)
RECURSIVE DerivesSeq(_, _, _, _, _)

\* The language of the grammar, as a context-free grammar with unordered
\* alternatives: the positions j such that symbol derives tokens[i .. j).
Derives(symbol, i, tokens, syntax) ==
    IF symbol \in DOMAIN syntax
    THEN UNION {DerivesSeq(syntax[symbol][k], 1, i, tokens, syntax) :
                   k \in 1 .. Len(syntax[symbol])}
    ELSE IF i < Len(tokens) /\ tokens[i + 1] = symbol THEN {i + 1} ELSE {}

DerivesSeq(rule, n, i, tokens, syntax) ==
    IF n > Len(rule) THEN {i}
    ELSE UNION {DerivesSeq(rule, n + 1, j, tokens, syntax) :
                   j \in Derives(rule[n], i, tokens, syntax)}

InLanguage(tokens) ==
    Len(tokens) \in Derives("expression", 0, tokens, bnf_syntax)

\* parse_expression was applied to expression
Applied == pc \in {"parsed", "parse_raised", "evaluate_raised"}

\* evaluate was applied to tree under a binding of x, y, z
Evaluated == Applied /\ evals >= 1 /\ env.bound

Bound(b) == [bound |-> TRUE, x |-> b[1], y |-> b[2], z |-> b[3]]

(***************************************************************************)
(* C1.  parse_expression rejects trailing tokens: whenever it returns a    *)
(* tree, the root rule consumed the whole of the expression.               *)
(***************************************************************************)
C1_TrailingTokensRejected ==
    pc = "parsed" =>
        parse(expression, 0, "expression", bnf_syntax).i = Len(expression)

(***************************************************************************)
(* C2.  Round trip: for an expression in the language of the grammar,      *)
(* parse_expression returns a tree, and the leaves of the tree, read left  *)
(* to right, are the tokens of the expression.                             *)
(***************************************************************************)
C2_RoundTrip ==
    (Applied /\ InLanguage(expression)) =>
        (pc # "parse_raised" /\ Leaves(tree) = expression)

C2_Witness ==
    /\ pc = "parsed"
    /\ expression = Demo
    /\ InLanguage(expression)
    /\ Leaves(tree) = Demo

(***************************************************************************)
(* C3.  Digit concatenation: the value of a non-empty digit string is the  *)
(* decimal integer the string denotes.                                     *)
(***************************************************************************)
C3_DigitStringValue ==
    (Evaluated /\ expression # <<>> /\ AllDigits(expression)) =>
        value = Integer(DecimalValue(expression))

\* 10 + 2*x + 3*(y+z)/2 as the float (20 + 4*x + 3*(y+z)) / 2
DemoValue(e) == Number(20 + 4 * e.x + 3 * (e.y + e.z), 2, TRUE)

(***************************************************************************)
(* C4.  The tree of "10+2*x+3*(y+z)/2" evaluates under every binding of x, *)
(* y, z to 10 + 2*x + 3*(y+z)/2 with true division, whatever was evaluated *)
(* before, and the tree stays the one the parser returned: 19.5 under      *)
(* (1, 2, 3) and 39 under (10, 2, 4).                                      *)
(***************************************************************************)
C4_DemoValue ==
    (Evaluated /\ expression = Demo) =>
        /\ pc = "parsed"
        /\ tree = parse_expression(Demo).el
        /\ value = DemoValue(env)
        /\ env = Bound(<<1, 2, 3>>) => (value.n = 39 /\ value.d = 2)
        /\ env = Bound(<<10, 2, 4>>) => (value.n = 39 /\ value.d = 1)

C4_Witness ==
    /\ expression = Demo
    /\ evals = 2
    /\ env = Bound(<<10, 2, 4>>)
    /\ value.n = 39 /\ value.d = 1

\* the alternatives of the rule a direct call names
Alternatives(c) == Syntax(c.syntax)[c.identifier]

\* what alternative k of the called rule gives from the start position
Alternative(c, k) ==
    parse_rule(c.tokens, c.i, Alternatives(c)[k], Syntax(c.syntax))

\* the alternatives whose whole sequence matches from the start position,
\* and the earliest of them
Matching(c) == {k \in 1 .. Len(Alternatives(c)) : Alternative(c, k).ok}

Earliest(c) == CHOOSE k \in Matching(c) : \A j \in Matching(c) : k <= j

(***************************************************************************)
(* C5.  First alternative wins: a successful parse returns the node of the *)
(* earliest alternative, in declaration order, whose whole sequence        *)
(* matches from the start position, also when a later alternative matches  *)
(* and consumes more.                                                      *)
(***************************************************************************)
C5_FirstAlternativeWins ==
    (pc = "returned" /\ ret.ok) =>
        /\ Matching(call) # {}
        /\ ret.i = Alternative(call, Earliest(call)).i
        /\ ret.el = Node(call.identifier, Alternative(call, Earliest(call)).el)

C5_Witness ==
    /\ pc = "returned"
    /\ ret.ok
    /\ \E k \in Matching(call) :
         k > Earliest(call) /\ Alternative(call, k).i > ret.i

\* Rule r of test_syntax has the alternatives ("number", "a") and ("a"), and
\* "number" has no entry in the grammar: every parse of r reaches it first.
ReachesUnknown ==
    pc = "returned" /\ call.syntax = "test_syntax" /\ call.identifier = "r"

\* the token at (0-based) position j, "" past the end
TokenAt(tokens, j) == IF j < Len(tokens) THEN tokens[j + 1] ELSE ""

\* C7 as claimed: reaching the name is a failure that is no ParseError and
\* is not turned into trying the next alternative.
C7_UnknownRuleFatal ==
    ReachesUnknown => (~ret.ok /\ ret.err \notin ParseError)

\* C7 as amended: the name is matched as a terminal token, and a mismatch
\* is an ordinary failure after which the next alternative is tried; only
\* a direct call of parse on a name with no entry raises a KeyError.
C7_UnknownRuleIsTerminal ==
    /\ ReachesUnknown =>
         ret = IF /\ TokenAt(call.tokens, call.i) = "number"
                  /\ TokenAt(call.tokens, call.i + 1) = "a"
               THEN Return(call.i + 2,
                           Node("r", <<Leaf("number"), Leaf("a")>>))
               ELSE IF TokenAt(call.tokens, call.i) = "a"
               THEN Return(call.i + 1, Node("r", <<Leaf("a")>>))
               ELSE Raise("ValueError")
    /\ (pc = "returned" /\ call.identifier = "number") =>
         ret = Raise("KeyError")

C7_Witness ==
    /\ ReachesUnknown
    /\ ret.ok
    /\ ret.el.parts = <<Leaf("number"), Leaf("a")>>

\* evaluate raises no TypeError at the node t, nor at a node below it
RECURSIVE NoTypeError(_, _)
NoTypeError(t, e) ==
    /\ evaluate(t, e) # Raised("TypeError")
    /\ \A k \in 1 .. Len(t.parts) :
         IsLeaf(t.parts[k]) \/ NoTypeError(t.parts[k], e)

(***************************************************************************)
(* C8.  No node of a tree parse_expression returns makes evaluate raise a  *)
(* TypeError.                                                              *)
(***************************************************************************)
C8_NoMalformedTree ==
    (Applied /\ pc # "parse_raised") =>
        (value # Raised("TypeError") /\ NoTypeError(tree, env))

C8_Witness ==
    /\ Evaluated
    /\ expression = Demo
    /\ NoTypeError(tree, env)

\* "a op1 b op2 c" with single digits and both operators of one level
IsChain(e) ==
    /\ Len(e) = 5
    /\ \E ops \in {SumOps, ProdOps} :
         /\ {e[1], e[3], e[5]} \subseteq Operands(ops)
         /\ {e[2], e[4]} \subseteq ops

\* the tree (a, op1, (b, op2, c)) of a chain
FactorOf(a) ==
    Node("factor", <<Node("constant", <<Node("digit", <<Leaf(a)>>)>>)>>)

TermOf(a) == Node("term", <<FactorOf(a)>>)

RightGrouped(e) ==
    IF e[2] \in SumOps
    THEN Node("expression",
              <<TermOf(e[1]), Node("sumop", <<Leaf(e[2])>>),
                Node("expression",
                     <<TermOf(e[3]), Node("sumop", <<Leaf(e[4])>>),
                       Node("expression", <<TermOf(e[5])>>)>>)>>)
    ELSE Node("expression",
              <<Node("term",
                     <<FactorOf(e[1]), Node("prodop", <<Leaf(e[2])>>),
                       Node("term",
                            <<FactorOf(e[3]), Node("prodop", <<Leaf(e[4])>>),
                              Node("term", <<FactorOf(e[5])>>)>>)>>)>>)

\* op applied to the rationals p and q, as <<numerator, denominator>>
Rational(op, p, q) ==
    CASE op = "+" -> <<p[1] * q[2] + q[1] * p[2], p[2] * q[2]>>
      [] op = "-" -> <<p[1] * q[2] - q[1] * p[2], p[2] * q[2]>>
      [] op = "*" -> <<p[1] * q[1], p[2] * q[2]>>
      [] op = "/" -> <<p[1] * q[2], p[2] * q[1]>>

\* a op1 (b op2 c)
RightValue(e) ==
    LET a == <<DigitValue(e[1]), 1>>
        b == <<DigitValue(e[3]), 1>>
        c == <<DigitValue(e[5]), 1>>
        v == Rational(e[2], a, Rational(e[4], b, c))
    IN  Number(v[1], v[2], "/" \in {e[2], e[4]})

(***************************************************************************)
(* C10.  Operator chains group to the right: "a op1 b op2 c" with both     *)
(* operators of one level parses to (a, op1, (b, op2, c)) and evaluates to *)
(* a op1 (b op2 c); "1-2-3" is 2 and "8/4/2" is 4.                         *)
(***************************************************************************)
C10_RightGrouping ==
    (Applied /\ IsChain(expression)) =>
        /\ pc = "parsed"
        /\ tree = RightGrouped(expression)
        /\ Evaluated =>
             /\ value = RightValue(expression)
             /\ expression = <<"1", "-", "2", "-", "3">> => value = Integer(2)
             /\ expression = <<"8", "/", "4", "/", "2">> =>
                  (value.n = 4 /\ value.d = 1)

C10_Witness ==
    /\ Evaluated
    /\ expression = <<"8", "/", "4", "/", "2">>
    /\ value.n = 4 /\ value.d = 1

(***************************************************************************)
(* Properties of a call run step by step.                                  *)
(***************************************************************************)
\* the number of calls of parse that are active
Depth == Cardinality({d \in 1 .. Len(stack) : stack[d].fn = "parse"})

\* parse_expression runs
BuiltIn == call.syntax = "bnf_syntax"

\* The run ends with what parse returns or raises.
RunAgrees ==
    pc = "done" =>
        LET r == parse(call.tokens, call.i, call.identifier, Grammar)
        IN  IF r.ok
            THEN result = Returned(r.i, r.el, <<>>)
            ELSE result.kind = "raise" /\ result.err = r.err

(***************************************************************************)
(* C6.  Backtracking leaves the position untouched.  The i of a call of    *)
(* parse stays the position it was called with while its alternatives are  *)
(* tried; each alternative starts at that position with no parts, whatever *)
(* the alternatives that failed before it had matched; and the parts and   *)
(* the position of the alternative that succeeds are those of its own      *)
(* symbols, matched from that position on.                                 *)
(***************************************************************************)
C6_BacktrackingRestores ==
    /\ \A d \in 1 .. Len(stack) :
         /\ stack[d].fn = "parse" => stack[d].i = stack[d].start
         /\ (d > 1 /\ stack[d].fn = "parse_rule" /\ stack[d].k = 1) =>
              (stack[d].i = stack[d - 1].start /\ stack[d].parts = <<>>)
    /\ (pc = "running" /\ result.kind = "return" /\ Top.fn = "parse") =>
         /\ Len(result.parts) = Len(Grammar[Top.identifier][Top.k])
         /\ LeavesOfParts(result.parts)
              = SubSeq(call.tokens, Top.start + 1, result.i)

\* an alternative starts after the one before it failed with two parts
\* matched
C6_Witness ==
    /\ pc = "running"
    /\ Len(stack) >= 2
    /\ Top.fn = "parse_rule" /\ Top.k = 1 /\ Top.parts = <<>>
    /\ stack[Len(stack) - 1].k >= 2
    /\ stack[Len(stack) - 1].lost >= 2
    /\ Top.i = stack[Len(stack) - 1].start

DepthBound == BuiltIn => Depth <= 3 * Len(call.tokens) + 5

\* a run of parse_expression ends with a tree or with a ParseError
TreeOrParseError ==
    (pc = "done" /\ BuiltIn) =>
        \/ result.kind = "return" /\ ~IsLeaf(result.el)
        \/ result.kind = "raise" /\ result.err \in {"ValueError", "IndexError"}

====
